---------------------------- MODULE Spec2Model ----------------------------
(***************************************************************************)
(* A model of client-sdks/openapi: process_openapi_hierarchy.py (tag       *)
(* hierarchy extraction, placeholder endpoints, schema normalisation) and  *)
(* patch_api_hierarchy.py (linearising the hierarchy and patching the      *)
(* generated API files and the aggregate client).                          *)
(*                                                                         *)
(* Representation.  A Python str is a sequence of one-character strings    *)
(* (<<"a", "_", "b">> is "a_b", <<>> is ""), so that lower(), replace()    *)
(* and the regular expressions of to_snake_case are computed, not assumed. *)
(* An insertion-ordered dict is a sequence of <<key, value>> entries with  *)
(* distinct keys.  None is the empty option <<>>, a present value v is     *)
(* <<v>>.                                                                  *)
(***************************************************************************)
EXTENDS Naturals, Sequences, FiniteSets, TLC

VARIABLES
    \* build_hierarchy_from_tags / extract_parent_child_pairs on their own
    hierarchy,      \* the nested dict build_hierarchy_from_tags fills
    inserted,       \* the tag lists inserted so far, in order (history)
    linear,         \* extract_parent_child_pairs(hierarchy)
    \* fix_oneof_const_schemas on its own
    schema,         \* the schema tree given to fix_oneof_const_schemas
    once,           \* fix_oneof_const_schemas(schema)
    twice,          \* fix_oneof_const_schemas(once)
    opc,            \* "start", "once", "twice"
    \* process_openapi
    pc,                      \* the step process_openapi is at
    input_paths,             \* spec["paths"] as loaded
    input_components,        \* spec["components"]["schemas"] as loaded
    paths,                   \* spec["paths"]
    components,              \* spec["components"]["schemas"]
    api_hierarchy,
    all_tags,
    tags_with_endpoints,
    tags_without_endpoints,
    scan_i,                  \* operations the scanning loop has visited
    hierarchy_file,          \* the written hierarchy file: <<>> or <<api_hierarchy>>
    output_file,             \* whether the processed spec has been written
    \* patch_apis
    ppc,                     \* the step patch_apis is at
    run,                     \* how many times the script has been started
    patch_hierarchy,         \* data["api_hierarchy"] of the hierarchy file
    api_dir_exists,          \* whether <sdk_dir>/<package>/api exists
    files,                   \* the API files: module name (without _api.py) -> lines
    client_file,             \* llama_stack_client.py: <<>> (absent) or <<lines>>
    pairs,
    pair_i,                  \* pairs the patching loop has processed
    patched_count

treeVars == <<hierarchy, inserted, linear>>

oneofVars == <<schema, once, twice, opc>>

procVars == <<pc, input_paths, input_components, paths, components, api_hierarchy, all_tags,
              tags_with_endpoints, tags_without_endpoints, scan_i, hierarchy_file, output_file>>

patchVars == <<ppc, run, patch_hierarchy, api_dir_exists, files, client_file, pairs, pair_i,
               patched_count>>

vars == <<treeVars, oneofVars, procVars, patchVars>>

-----------------------------------------------------------------------------
(* Bounds *)

\* longest tag list of an operation
MaxTagListLen == 2
\* number of insertions into one hierarchy tree
MaxInserts == 2
\* longest oneOf list of an input schema
MaxOneOfLen == 2
\* operations of an input spec
MaxOps == 2
\* longest required list of an input component schema
MaxRequired == 2
\* times the patcher is run on one SDK directory
MaxRuns == 2

-----------------------------------------------------------------------------
(* Characters and strings *)

UpperChars == {"A", "B"}
LowerChars == {"a", "b"}
DigitChars == {"0"}

\* str.lower() on one character
LowerChar(c) ==
    CASE c = "A" -> "a"
      [] c = "B" -> "b"
      [] OTHER -> c

\* str.upper() on one character
UpperChar(c) ==
    CASE c = "a" -> "A"
      [] c = "b" -> "B"
      [] OTHER -> c

\* the code point Python's str comparison (sorted) orders by
CharCode(c) ==
    CASE c = " " -> 32
      [] c = "-" -> 45
      [] c = "0" -> 48
      [] c = "A" -> 65
      [] c = "B" -> 66
      [] c = "_" -> 95
      [] c = "a" -> 97
      [] c = "b" -> 98

MapChars(f(_), s) == [i \in 1..Len(s) |-> f(s[i])]

Lower(s) == MapChars(LowerChar, s)

\* str.replace(old, new) for one-character old and new
ReplaceChar(s, old, new) == [i \in 1..Len(s) |-> IF s[i] = old THEN new ELSE s[i]]

\* Python's s < t on str
RECURSIVE StrLess(_, _)
StrLess(s, t) ==
    IF t = <<>> THEN FALSE
    ELSE IF s = <<>> THEN TRUE
    ELSE IF s[1] # t[1] THEN CharCode(s[1]) < CharCode(t[1])
    ELSE StrLess(Tail(s), Tail(t))

\* sorted(S) for a finite set of str
RECURSIVE Sorted(_)
Sorted(S) ==
    IF S = {} THEN <<>>
    ELSE LET m == CHOOSE x \in S : \A y \in S \ {x} : StrLess(x, y)
         IN  <<m>> \o Sorted(S \ {m})

Range(s) == {s[i] : i \in 1..Len(s)}

\* the sequences over S of length lo..hi
SeqsBetween(S, lo, hi) == UNION {[1..n -> S] : n \in lo..hi}

-----------------------------------------------------------------------------
(* Tags *)

\* the tags the input specs are written with: "", "a b", "a_b", "aB"
TagUniverse == {<<>>, <<"a", " ", "b">>, <<"a", "_", "b">>, <<"a", "B">>}

\* the non-empty tag lists an operation may carry
TagLists == SeqsBetween(TagUniverse, 1, MaxTagListLen)

-----------------------------------------------------------------------------
(* process_openapi_hierarchy.py: the hierarchy tree *)

HasKey(d, k) == \E i \in 1..Len(d) : d[i][1] = k

KeyIndex(d, k) == CHOOSE i \in 1..Len(d) : d[i][1] = k

Get(d, k) == d[KeyIndex(d, k)][2]

\* d[k] = v on an insertion-ordered dict: an existing key keeps its place
Put(d, k, v) ==
    IF HasKey(d, k)
    THEN [d EXCEPT ![KeyIndex(d, k)] = <<k, v>>]
    ELSE Append(d, <<k, v>>)

\* a mutation of the loop body: the subtree is reset on every visit
RECURSIVE build_hierarchy_overwriting(_, _)
build_hierarchy_overwriting(tags, h) ==
    IF tags = <<>> THEN h
    ELSE Put(h, Head(tags), build_hierarchy_overwriting(Tail(tags), <<>>))

\* build_hierarchy_from_tags(tags, hierarchy): the dict after the call.
\* current = hierarchy; for tag in tags: create current[tag] = {} when
\* absent, then descend.
RECURSIVE build_hierarchy_from_tags(_, _)
build_hierarchy_from_tags(tags, h) ==
    IF tags = <<>> THEN h
    ELSE LET tag == Head(tags)
             cur == IF HasKey(h, tag) THEN h ELSE Put(h, tag, <<>>)
         IN  Put(cur, tag, build_hierarchy_from_tags(Tail(tags), Get(cur, tag)))

\* get_leaf_tag(tags): None (<<>>) for an empty list, else <<tags[-1]>>
get_leaf_tag(tags) == IF tags = <<>> THEN <<>> ELSE <<tags[Len(tags)]>>

\* Python truthiness of an optional str: None and "" are falsy
Truthy(opt) == opt # <<>> /\ opt[1] # <<>>

-----------------------------------------------------------------------------
(* patch_api_hierarchy.py: the linearizer *)

\* extract_parent_child_pairs(hierarchy, parent): parent is an option
RECURSIVE extract_parent_child_pairs(_, _)
extract_parent_child_pairs(h, parent) ==
    IF h = <<>> THEN <<>>
    ELSE LET key == h[1][1]
             value == h[1][2]
             own == IF Truthy(parent) THEN << <<parent[1], key>> >> ELSE <<>>
             below == IF value # <<>> THEN extract_parent_child_pairs(value, <<key>>) ELSE <<>>
         IN  own \o below \o extract_parent_child_pairs(Tail(h), parent)

-----------------------------------------------------------------------------
(* process_openapi_hierarchy.py: const-oneOf conversion *)

(* A YAML value is <<"atom", s>>, <<"list", items>> or <<"dict", entries>>, *)
(* entries being an insertion-ordered dict from key strings to values.     *)
Atom(s) == <<"atom", s>>
List(items) == <<"list", items>>
Dict(entries) == <<"dict", entries>>

IsDict(v) == v[1] = "dict"
IsList(v) == v[1] = "list"

\* the outcome of a call that raised (one_of[0] on an empty list)
Raised == <<"raise", "IndexError">>

\* "k in d" and d[k] for a YAML dict value
In(k, d) == HasKey(d[2], k)
At(d, k) == Get(d[2], k)

\* all(isinstance(item, dict) and "const" in item for item in one_of)
AllConst(one_of) == \A i \in 1..Len(one_of[2]) : IsDict(one_of[2][i]) /\ In("const", one_of[2][i])

\* the entries of a dict whose key is not in skip, in order
RECURSIVE EntriesWithout(_, _)
EntriesWithout(entries, skip) ==
    IF entries = <<>> THEN <<>>
    ELSE (IF entries[1][1] \in skip THEN <<>> ELSE <<entries[1]>>)
         \o EntriesWithout(Tail(entries), skip)

\* convert_oneof_const_to_enum(schema): the returned schema, or Raised
convert_oneof_const_to_enum(s) ==
    IF ~IsDict(s) \/ ~In("oneOf", s) THEN s
    ELSE LET one_of == At(s, "oneOf") IN
         IF ~IsList(one_of) THEN s
         ELSE IF ~AllConst(one_of) THEN s
         ELSE IF one_of[2] = <<>> THEN Raised    \* one_of[0]: IndexError
         ELSE LET first == one_of[2][1]
                  schema_type == IF In("type", first) THEN At(first, "type") ELSE Atom("string")
                  enum_values == [i \in 1..Len(one_of[2]) |-> At(one_of[2][i], "const")]
              IN  Dict(<< <<"type", schema_type>>, <<"enum", List(enum_values)>> >>
                       \o EntriesWithout(s[2], {"oneOf", "type", "enum"}))

\* fix_oneof_const_schemas(obj): the returned object, or Raised when a
\* conversion below raised
RECURSIVE fix_oneof_const_schemas(_)
fix_oneof_const_schemas(obj) ==
    IF IsDict(obj) THEN
        LET o == IF In("oneOf", obj) THEN convert_oneof_const_to_enum(obj) ELSE obj IN
        IF o = Raised THEN Raised
        ELSE LET vals == [i \in 1..Len(o[2]) |-> fix_oneof_const_schemas(o[2][i][2])] IN
             IF \E i \in 1..Len(vals) : vals[i] = Raised THEN Raised
             ELSE Dict([i \in 1..Len(o[2]) |-> <<o[2][i][1], vals[i]>>])
    ELSE IF IsList(obj) THEN
        LET items == [i \in 1..Len(obj[2]) |-> fix_oneof_const_schemas(obj[2][i])] IN
        IF \E i \in 1..Len(items) : items[i] = Raised THEN Raised
        ELSE List(items)
    ELSE obj

-----------------------------------------------------------------------------
(* process_openapi_hierarchy.py: process_openapi *)

(* spec["paths"] is a dict from path to path item, a path item a dict from *)
(* method to operation.  A path "/<dir>/<name>" is <<dir, name>>.  An      *)
(* operation is a record: tags (absent and [] both being <<>>), ref (the   *)
(* last "/" segment of responses.200.content.application/json.schema.$ref, *)
(* an option), unwrap (x-unwrap-list-response) and dummy (synthesized).    *)
(* spec["components"]["schemas"] is a dict from schema name to YAML value. *)

\* the method list of the scanning loop
ScanMethods == <<"get", "post", "put", "delete", "patch", "options", "head", "trace">>

\* the methods the list-unwrap loop does not skip
UnwrapMethods == {"get", "post", "put", "delete", "patch"}

\* the pagination_fields set
pagination_fields == {"has_more", "url", "first_id", "last_id", "next_page_token", "total"}

\* tag.lower().replace(' ', '-').replace('_', '-')
Slug(tag) == ReplaceChar(ReplaceChar(Lower(tag), " ", "-"), "_", "-")

\* f"/dummy/{slug}"
DummyPath(tag) == <<"dummy", Slug(tag)>>

\* the placeholder operation of a tag
DummyOperation(tag) == [tags |-> <<tag>>, ref |-> <<>>, unwrap |-> FALSE, dummy |-> TRUE]

\* the (path, method) pairs in the order the scanning loop visits them
RECURSIVE ScanOrder(_)
ScanOrder(ps) ==
    IF ps = <<>> THEN <<>>
    ELSE LET path == ps[1][1]
             item == ps[1][2]
             here == SelectSeq(ScanMethods, LAMBDA m : HasKey(item, m))
         IN  [i \in 1..Len(here) |-> <<path, here[i]>>] \o ScanOrder(Tail(ps))

OpAt(ps, path, method) == Get(Get(ps, path), method)

SetOp(ps, path, method, op) == Put(ps, path, Put(Get(ps, path), method, op))

\* the loop over sorted(tags_without_endpoints): spec["paths"][dummy_path] = {"get": ...}
RECURSIVE SynthesizeDummies(_, _)
SynthesizeDummies(ps, tags) ==
    IF tags = <<>> THEN ps
    ELSE SynthesizeDummies(
            Put(ps, DummyPath(Head(tags)), << <<"get", DummyOperation(Head(tags))>> >>),
            Tail(tags))

\* fix_oneof_const_schemas over the component schemas: the dict, or Raised
FixComponents(cs) ==
    LET fixed == [i \in 1..Len(cs) |-> fix_oneof_const_schemas(cs[i][2])] IN
    IF \E i \in 1..Len(cs) : fixed[i] = Raised THEN Raised
    ELSE [i \in 1..Len(cs) |-> <<cs[i][1], fixed[i]>>]

\* fields_with_defaults of one schema: the property names whose schema is
\* a dict with a "default" key
FieldsWithDefaults(s) ==
    LET props == At(s, "properties")[2] IN
    {props[i][1] : i \in {j \in 1..Len(props) : IsDict(props[j][2]) /\ In("default", props[j][2])}}

\* [f for f in required if f not in names]
RequiredWithout(required, names) ==
    List(SelectSeq(required[2], LAMBDA f : f[2] \notin names))

\* a mutation: the fields without a default are the ones removed
RemoveDefaultedMutant(s) ==
    IF IsDict(s) /\ In("required", s) /\ In("properties", s) /\ FieldsWithDefaults(s) # {}
    THEN Dict(Put(s[2], "required",
                  List(SelectSeq(At(s, "required")[2], LAMBDA f : f[2] \in FieldsWithDefaults(s)))))
    ELSE s

\* the defaults pass on one component schema
RemoveDefaulted(s) ==
    IF IsDict(s) /\ In("required", s) /\ In("properties", s) /\ FieldsWithDefaults(s) # {}
    THEN Dict(Put(s[2], "required", RequiredWithout(At(s, "required"), FieldsWithDefaults(s))))
    ELSE s

ErrorName == <<"E", "r", "r", "o", "r">>

\* the flexible detail schema of the Error model
FlexibleDetail ==
    Dict(<< <<"description", Atom("Error detail - can be a string or structured error object")>>,
            <<"oneOf", List(<< Dict(<< <<"type", Atom("string")>> >>),
                               Dict(<< <<"type", Atom("object")>> >>) >>)>> >>)

\* the Error relaxation on the Error schema
RelaxError(s) ==
    LET r == IF In("required", s)
             THEN Dict(Put(s[2], "required", RequiredWithout(At(s, "required"), {"status", "title"})))
             ELSE s
    IN  IF In("properties", r) /\ In("detail", At(r, "properties"))
        THEN Dict(Put(r[2], "properties", Dict(Put(At(r, "properties")[2], "detail", FlexibleDetail))))
        ELSE r

StartsWith(s, prefix) == Len(s) >= Len(prefix) /\ SubSeq(s, 1, Len(prefix)) = prefix

EndsWith(s, suffix) == Len(s) >= Len(suffix) /\ SubSeq(s, Len(s) - Len(suffix) + 1, Len(s)) = suffix

ListPrefix == <<"L", "i", "s", "t">>
ResponseSuffix == <<"R", "e", "s", "p", "o", "n", "s", "e">>

\* the test of the list-unwrap pass on an operation's schema name:
\* List*Response, declared with properties that hold data and no
\* pagination field
SimpleListResponse(ref, cs) ==
    /\ ref # <<>>
    /\ ref[1] # <<>>
    /\ StartsWith(ref[1], ListPrefix)
    /\ EndsWith(ref[1], ResponseSuffix)
    /\ HasKey(cs, ref[1])
    /\ LET schema_def == Get(cs, ref[1]) IN
       /\ IsDict(schema_def)
       /\ In("properties", schema_def)
       /\ LET props == At(schema_def, "properties") IN
          /\ ~(\E field \in pagination_fields : In(field, props))
          /\ In("data", props)

\* a mutation: the method filter of the scanning loop is used
MethodUnwrappableMutant(method) == method \in Range(ScanMethods)

\* "method.lower() not in [...]: continue"
MethodUnwrappable(method) == method \in UnwrapMethods

\* the list-unwrap pass on one path item
UnwrapItem(item, cs) ==
    [i \in 1..Len(item) |->
        LET method == item[i][1]
            op == item[i][2]
        IN  IF MethodUnwrappable(method) /\ SimpleListResponse(op.ref, cs)
            THEN <<method, [op EXCEPT !.unwrap = TRUE]>>
            ELSE item[i]]

-----------------------------------------------------------------------------
(* patch_api_hierarchy.py: names *)

Separators == {"_", "-", " "}

\* re.sub("(.)([A-Z][a-z]+)", r"\1_\2", s): leftmost matches, the run of
\* lower-case letters taken greedily, the search resumed after each match
RECURSIVE LowerRunEnd(_, _)
LowerRunEnd(s, i) ==
    IF i < Len(s) /\ s[i + 1] \in LowerChars THEN LowerRunEnd(s, i + 1) ELSE i

RECURSIVE SubWordBoundary(_)
SubWordBoundary(s) ==
    IF Len(s) < 3 THEN s
    ELSE IF s[2] \in UpperChars /\ s[3] \in LowerChars
         THEN LET j == LowerRunEnd(s, 3)
              IN  <<s[1], "_">> \o SubSeq(s, 2, j) \o SubWordBoundary(SubSeq(s, j + 1, Len(s)))
         ELSE <<s[1]>> \o SubWordBoundary(Tail(s))

\* re.sub("([a-z0-9])([A-Z])", r"\1_\2", s)
RECURSIVE SubCamelBoundary(_)
SubCamelBoundary(s) ==
    IF Len(s) < 2 THEN s
    ELSE IF s[1] \in (LowerChars \cup DigitChars) /\ s[2] \in UpperChars
         THEN <<s[1], "_", s[2]>> \o SubCamelBoundary(SubSeq(s, 3, Len(s)))
         ELSE <<s[1]>> \o SubCamelBoundary(Tail(s))

to_snake_case(name) ==
    ReplaceChar(ReplaceChar(Lower(SubCamelBoundary(SubWordBoundary(name))), " ", "_"), "-", "_")

\* "".join(word.capitalize() for word in re.split(r"[_\-\s]+", name)):
\* the first character of each word in upper case, the others in lower case
RECURSIVE Capitalized(_, _)
Capitalized(s, word_start) ==
    IF s = <<>> THEN <<>>
    ELSE IF s[1] \in Separators THEN Capitalized(Tail(s), TRUE)
    ELSE <<IF word_start THEN UpperChar(s[1]) ELSE LowerChar(s[1])>> \o Capitalized(Tail(s), FALSE)

to_pascal_case(name) == Capitalized(name, TRUE)

-----------------------------------------------------------------------------
(* patch_api_hierarchy.py: the generated files *)

(* A file is the sequence of its lines.  A line is a record: kind says     *)
(* which of the texts the patcher looks for or writes the line holds,      *)
(* indent its leading blanks, a and b the names in it.  The kinds:         *)
(*   "other"         no text the patcher looks for                         *)
(*   "import"        "import ..." or "from ... import ..." at column 0     *)
(*   "typing"        "from typing import <a>", opt: Optional is imported   *)
(*   "class"         "class <Name>Api:" at column 0                        *)
(*   "binding"       "self.api_client = api_client"                        *)
(*   "child_import"  "from <package>.api.<a>_api import <b>Api"            *)
(*   "property"      "self.<a>: Optional[<b>Api] = None"                   *)
(*   "marker"        "# Set up nested API structure based on ..."          *)
(*   "wire_comment"  "# Wire up parent-child API relationships"            *)
(*   "wire"          "self.<a>.<b> = self.<b>"                             *)
Line(kind, indent, a, b, opt) == [kind |-> kind, indent |-> indent, a |-> a, b |-> b, opt |-> opt]

OtherLine == Line("other", 0, <<>>, <<>>, FALSE)
ImportLine == Line("import", 0, <<>>, <<>>, FALSE)
TypingLine(opt) == Line("typing", 0, <<"A">>, <<>>, opt)
ClassLine == Line("class", 0, <<>>, <<>>, FALSE)
BindingLine(indent) == Line("binding", indent, <<>>, <<>>, FALSE)
MarkerLine(indent) == Line("marker", indent, <<>>, <<>>, FALSE)

\* f"from {package_name}.api.{child_module} import {child_class}\n"
ChildImportLine(child_tag) ==
    Line("child_import", 0, to_snake_case(child_tag), to_pascal_case(child_tag), FALSE)

\* f"{' ' * indent}self.{child_snake}: Optional[{child_class}] = None\n"
PropertyLine(indent, child_tag) ==
    Line("property", indent, to_snake_case(child_tag), to_pascal_case(child_tag), FALSE)

\* f"{' ' * indent}# Wire up parent-child API relationships\n"
WireCommentLine(indent) == Line("wire_comment", indent, <<>>, <<>>, FALSE)

\* f"{' ' * indent}self.{parent_snake}.{child_snake} = self.{child_snake}\n"
WireLine(indent, pair) ==
    Line("wire", indent, to_snake_case(pair[1]), to_snake_case(pair[2]), FALSE)

\* list.insert(idx, line) with a 0-based idx <= len
InsertAt(lines, idx, line) ==
    SubSeq(lines, 1, idx) \o <<line>> \o SubSeq(lines, idx + 1, Len(lines))

\* the 1-based position of the first line from position lo on that
\* satisfies P, 0 when there is none
FirstFrom(lines, lo, P(_)) ==
    IF \E i \in lo..Len(lines) : P(lines[i])
    THEN CHOOSE i \in lo..Len(lines) : P(lines[i]) /\ \A j \in lo..(i - 1) : ~P(lines[j])
    ELSE 0

\* the 1-based position of the last line that satisfies P, 0 when none
LastOf(lines, P(_)) ==
    IF \E i \in 1..Len(lines) : P(lines[i])
    THEN CHOOSE i \in 1..Len(lines) : P(lines[i]) /\ \A j \in (i + 1)..Len(lines) : ~P(lines[j])
    ELSE 0

Max(x, y) == IF x >= y THEN x ELSE y

\* line.startswith("import ") or line.startswith("from ")
StartsImport(l) == l.indent = 0 /\ l.kind \in {"import", "typing", "child_import"}

\* patch_optional_import(api_file): the lines of the file after the call
patch_optional_import(lines) ==
    IF \E i \in 1..Len(lines) : lines[i].kind = "typing" /\ lines[i].opt
    THEN lines      \* re.search(r"from typing import.*Optional", content)
    ELSE LET t == FirstFrom(lines, 1, LAMBDA l : l.kind = "typing") IN
         IF t # 0
         THEN \* content.replace: every occurrence of the first typing import
              [i \in 1..Len(lines) |->
                  IF lines[i].kind = "typing" /\ lines[i].a = lines[t].a
                  THEN [lines[i] EXCEPT !.opt = TRUE]
                  ELSE lines[i]]
         ELSE InsertAt(lines, LastOf(lines, StartsImport), Line("typing", 0, <<>>, <<>>, TRUE))

\* import_line.strip() in line
HoldsChildImport(l, child_tag) ==
    /\ l.kind = "child_import"
    /\ l.a = to_snake_case(child_tag)
    /\ l.b = to_pascal_case(child_tag)

\* a mutation: the import goes directly above the class declaration
ImportIndexMutant(class_pos) == class_pos - 1

\* import_idx = max(0, class_line_idx - 2), class_pos being 1-based
ImportIndex(class_pos) == Max(0, (class_pos - 1) - 2)

\* patch_api_file(api_file, child_tag, package_name) on an existing file:
\* what it returns and the lines of the file after the call
patch_api_file(lines, child_tag) ==
    IF \E i \in 1..Len(lines) : HoldsChildImport(lines[i], child_tag)
    THEN [ok |-> FALSE, lines |-> lines]                 \* already patched
    ELSE LET class_pos == FirstFrom(lines, 1, LAMBDA l : l.kind = "class") IN
         IF class_pos = 0
         THEN [ok |-> FALSE, lines |-> lines]            \* no class definition
         ELSE LET with_import == InsertAt(lines, ImportIndex(class_pos), ChildImportLine(child_tag))
                  \* range(class_line_idx + 1, len(lines)), 0-based, on the new list
                  binding_pos == FirstFrom(with_import, class_pos + 1, LAMBDA l : l.kind = "binding")
              IN  IF binding_pos = 0
                  THEN [ok |-> FALSE, lines |-> lines]   \* nothing is written
                  ELSE [ok |-> TRUE,
                        lines |-> InsertAt(with_import, binding_pos,
                                     PropertyLine(with_import[binding_pos].indent, child_tag))]

\* the patch lines in the order they end up in the file
PatchLines(indent, ps) ==
    <<WireCommentLine(indent)>> \o [i \in 1..Len(ps) |-> WireLine(indent, ps[i])]

\* a mutation: the patch lines are inserted front to back at the same index
InsertPatchLinesMutant(lines, idx, patch_lines) ==
    SubSeq(lines, 1, idx)
    \o [i \in 1..Len(patch_lines) |-> patch_lines[Len(patch_lines) + 1 - i]]
    \o SubSeq(lines, idx + 1, Len(lines))

Reversed(s) == [i \in 1..Len(s) |-> s[Len(s) + 1 - i]]

\* lines.insert(insert_idx, line) for each line of todo in turn
RECURSIVE InsertEach(_, _, _)
InsertEach(lines, idx, todo) ==
    IF todo = <<>> THEN lines
    ELSE InsertEach(InsertAt(lines, idx, Head(todo)), idx, Tail(todo))

\* for line in reversed(patch_lines): lines.insert(insert_idx, line)
InsertPatchLines(lines, idx, patch_lines) == InsertEach(lines, idx, Reversed(patch_lines))

\* test_line in line, for the first pair
HoldsWire(l, pair) ==
    /\ l.kind = "wire"
    /\ l.a = to_snake_case(pair[1])
    /\ l.b = to_snake_case(pair[2])

\* patch_llama_stack_client(client_file, pairs) on an existing file
patch_llama_stack_client(lines, ps) ==
    LET comment_pos == FirstFrom(lines, 1, LAMBDA l : l.kind = "marker") IN
    IF comment_pos = 0
    THEN [ok |-> FALSE, lines |-> lines]
    ELSE IF ps # <<>> /\ \E i \in 1..Len(lines) : HoldsWire(lines[i], ps[1])
    THEN [ok |-> FALSE, lines |-> lines]                 \* already patched
    ELSE [ok |-> TRUE,
          lines |-> InsertPatchLines(lines, comment_pos,
                       PatchLines(lines[comment_pos].indent, ps))]

-----------------------------------------------------------------------------
(* Specification SpecOneOf: fix_oneof_const_schemas applied once and twice *)

\* the members a oneOf list is written with
OneOfMembers ==
    { Atom("s"),
      Dict(<<>>),
      Dict(<< <<"const", Atom("x")>> >>),
      Dict(<< <<"const", Atom("y")>>, <<"type", Atom("integer")>> >>),
      Dict(<< <<"type", Atom("integer")>> >>),
      Dict(<< <<"const", Dict(<< <<"oneOf", List(<< Dict(<< <<"const", Atom("x")>> >>) >>)>> >>)>> >>) }

\* the sibling keys a schema carries beside its oneOf
SiblingSets ==
    { <<>>,
      << <<"title", Atom("t")>> >>,
      << <<"type", Atom("number")>>, <<"default", Atom("x")>> >>,
      << <<"enum", List(<<Atom("z")>>)>>, <<"description", Atom("d")>> >> }

OneOfSchemas ==
    { Dict(<< <<"oneOf", List(l)>> >> \o sib) :
        l \in SeqsBetween(OneOfMembers, 0, MaxOneOfLen), sib \in SiblingSets }

\* a schema with a oneOf, alone, as a property of an object schema, or as
\* the items of a list
SchemaInputs ==
    OneOfSchemas
    \cup { Dict(<< <<"properties", Dict(<< <<"f", s>> >>)>> >>) : s \in OneOfSchemas }
    \cup { List(<<s, Atom("s")>>) : s \in OneOfSchemas }

Unset == Atom("unset")

OneOfIdle ==
    /\ schema = Unset
    /\ once = Unset
    /\ twice = Unset
    /\ opc = "idle"

OneOfInit ==
    /\ schema \in SchemaInputs
    /\ once = Unset
    /\ twice = Unset
    /\ opc = "start"

FixOnce ==
    /\ opc = "start"
    /\ once' = fix_oneof_const_schemas(schema)
    /\ opc' = "once"
    /\ UNCHANGED <<schema, twice>>
    /\ UNCHANGED <<treeVars, procVars, patchVars>>

\* a second application, on the result of the first (none when it raised)
FixTwice ==
    /\ opc = "once"
    /\ once # Raised
    /\ twice' = fix_oneof_const_schemas(once)
    /\ opc' = "twice"
    /\ UNCHANGED <<schema, once>>
    /\ UNCHANGED <<treeVars, procVars, patchVars>>


-----------------------------------------------------------------------------
(* Specification SpecTree: insertions into one hierarchy tree *)

TreeInit ==
    /\ hierarchy = <<>>
    /\ inserted = <<>>
    /\ linear = <<>>

\* one call build_hierarchy_from_tags(tags, hierarchy), then the linearizer
Insert ==
    /\ Len(inserted) < MaxInserts
    /\ \E tags \in TagLists :
        /\ hierarchy' = build_hierarchy_from_tags(tags, hierarchy)
        /\ inserted' = Append(inserted, tags)
    /\ linear' = extract_parent_child_pairs(hierarchy', <<>>)
    /\ UNCHANGED <<oneofVars, procVars, patchVars>>

-----------------------------------------------------------------------------
(* process_openapi, step by step *)

\* one iteration of the scanning loop: the operation at ScanOrder[scan_i + 1]
ScanOperation ==
    /\ pc = "scan"
    /\ scan_i < Len(ScanOrder(input_paths))
    /\ LET path == ScanOrder(input_paths)[scan_i + 1][1]
           method == ScanOrder(input_paths)[scan_i + 1][2]
           operation == OpAt(paths, path, method)
           tags == operation.tags
           leaf_tag == get_leaf_tag(tags)
       IN  IF tags # <<>>
           THEN /\ api_hierarchy' = build_hierarchy_from_tags(tags, api_hierarchy)
                /\ all_tags' = all_tags \cup Range(tags)
                /\ tags_with_endpoints' =
                      IF Truthy(leaf_tag) THEN tags_with_endpoints \cup {leaf_tag[1]}
                      ELSE tags_with_endpoints
                /\ paths' = SetOp(paths, path, method,
                      [operation EXCEPT !.tags = IF Truthy(leaf_tag) THEN leaf_tag ELSE <<>>])
           ELSE UNCHANGED <<api_hierarchy, all_tags, tags_with_endpoints, paths>>
    /\ scan_i' = scan_i + 1
    /\ UNCHANGED <<pc, components, input_paths, input_components,
                   tags_without_endpoints, hierarchy_file, output_file>>
    /\ UNCHANGED <<treeVars, oneofVars, patchVars>>

\* tags_without_endpoints = all_tags - tags_with_endpoints
ScanEnd ==
    /\ pc = "scan"
    /\ scan_i = Len(ScanOrder(input_paths))
    /\ tags_without_endpoints' = all_tags \ tags_with_endpoints
    /\ pc' = "synthesize"
    /\ UNCHANGED <<paths, components, input_paths, input_components, api_hierarchy,
                   all_tags, tags_with_endpoints, scan_i, hierarchy_file, output_file>>
    /\ UNCHANGED <<treeVars, oneofVars, patchVars>>

\* the placeholder endpoints, then the hierarchy file is written
Synthesize ==
    /\ pc = "synthesize"
    /\ paths' = SynthesizeDummies(paths, Sorted(tags_without_endpoints))
    /\ hierarchy_file' = <<api_hierarchy>>
    /\ pc' = "fix"
    /\ UNCHANGED <<components, input_paths, input_components, api_hierarchy, all_tags,
                   tags_with_endpoints, tags_without_endpoints, scan_i, output_file>>
    /\ UNCHANGED <<treeVars, oneofVars, patchVars>>

\* spec = fix_oneof_const_schemas(spec); an IndexError leaves process_openapi
FixOneOf ==
    /\ pc = "fix"
    /\ IF FixComponents(components) = Raised
       THEN pc' = "raised" /\ UNCHANGED components
       ELSE pc' = "defaults" /\ components' = FixComponents(components)
    /\ UNCHANGED <<paths, input_paths, input_components, api_hierarchy, all_tags,
                   tags_with_endpoints, tags_without_endpoints, scan_i, hierarchy_file,
                   output_file>>
    /\ UNCHANGED <<treeVars, oneofVars, patchVars>>

\* fields with defaults leave the required lists
Defaults ==
    /\ pc = "defaults"
    /\ components' = [i \in 1..Len(components) |->
                        <<components[i][1], RemoveDefaulted(components[i][2])>>]
    /\ pc' = "error"
    /\ UNCHANGED <<paths, input_paths, input_components, api_hierarchy, all_tags,
                   tags_with_endpoints, tags_without_endpoints, scan_i, hierarchy_file,
                   output_file>>
    /\ UNCHANGED <<treeVars, oneofVars, patchVars>>

\* the Error model is relaxed
ErrorRelaxation ==
    /\ pc = "error"
    /\ components' = IF HasKey(components, ErrorName)
                     THEN Put(components, ErrorName, RelaxError(Get(components, ErrorName)))
                     ELSE components
    /\ pc' = "unwrap"
    /\ UNCHANGED <<paths, input_paths, input_components, api_hierarchy, all_tags,
                   tags_with_endpoints, tags_without_endpoints, scan_i, hierarchy_file,
                   output_file>>
    /\ UNCHANGED <<treeVars, oneofVars, patchVars>>

\* x-unwrap-list-response is set, then the processed spec is written
Unwrap ==
    /\ pc = "unwrap"
    /\ paths' = [i \in 1..Len(paths) |-> <<paths[i][1], UnwrapItem(paths[i][2], components)>>]
    /\ output_file' = TRUE
    /\ pc' = "done"
    /\ UNCHANGED <<components, input_paths, input_components, api_hierarchy, all_tags,
                   tags_with_endpoints, tags_without_endpoints, scan_i, hierarchy_file>>
    /\ UNCHANGED <<treeVars, oneofVars, patchVars>>

ProcNext ==
    \/ ScanOperation
    \/ ScanEnd
    \/ Synthesize
    \/ FixOneOf
    \/ Defaults
    \/ ErrorRelaxation
    \/ Unwrap

-----------------------------------------------------------------------------
(* The input specs *)

\* the tags of the input operations: "", "a b", "a_b"
ProcessTags == {<<>>, <<"a", " ", "b">>, <<"a", "_", "b">>}

\* the paths of the input operations: /v1/a and /dummy/a-b
V1A == <<"v1", <<"a">>>>
DummyAB == <<"dummy", <<"a", "-", "b">>>>

InputOp(tags, ref) == [tags |-> tags, ref |-> ref, unwrap |-> FALSE, dummy |-> FALSE]

ListXResponse == <<"L", "i", "s", "t", "X", "R", "e", "s", "p", "o", "n", "s", "e">>
XResponse == <<"X", "R", "e", "s", "p", "o", "n", "s", "e">>
ListX == <<"L", "i", "s", "t", "X">>

TypeOnly == Dict(<< <<"type", Atom("string")>> >>)

\* {data: array, object: string}
SimpleListSchema ==
    Dict(<< <<"properties", Dict(<< <<"data", TypeOnly>>, <<"object", TypeOnly>> >>)>> >>)

\* the operations that only carry tags
TaggedOps == {InputOp(t, <<>>) : t \in SeqsBetween(ProcessTags, 0, MaxTagListLen)}

\* the (path, method) places of the input operations, in the order the
\* input file lists them: two methods of /v1/a first, or the two paths first
SlotOrders ==
    { << <<V1A, "get">>, <<V1A, "head">>, <<DummyAB, "get">>, <<DummyAB, "head">> >>,
      << <<V1A, "get">>, <<DummyAB, "get">>, <<V1A, "head">>, <<DummyAB, "head">> >> }

\* spec["paths"] with ops[i] at slots[i]
RECURSIVE PathsOf(_, _, _)
PathsOf(slots, ops, acc) ==
    IF slots = <<>> THEN acc
    ELSE LET path == slots[1][1]
             item == IF HasKey(acc, path) THEN Get(acc, path) ELSE <<>>
         IN  PathsOf(Tail(slots), Tail(ops), Put(acc, path, Put(item, slots[1][2], ops[1])))

ProcStart ==
    /\ paths = input_paths
    /\ components = input_components
    /\ api_hierarchy = <<>>
    /\ all_tags = {}
    /\ tags_with_endpoints = {}
    /\ tags_without_endpoints = {}
    /\ scan_i = 0
    /\ hierarchy_file = <<>>
    /\ output_file = FALSE

ExtractInit ==
    /\ \E order \in SlotOrders, k \in 1..MaxOps :
          /\ k <= Len(order)
          /\ \E ops \in [1..k -> TaggedOps] :
                input_paths = PathsOf(SubSeq(order, 1, k), ops, <<>>)
    /\ input_components = << <<ListXResponse, SimpleListSchema>> >>
    /\ ProcStart
    /\ pc = "scan"

\* no process_openapi run
ProcIdle ==
    /\ input_paths = <<>>
    /\ input_components = <<>>
    /\ ProcStart
    /\ pc = "idle"

\* the schemas a property of ListXResponse is declared with
PropSchemas ==
    { TypeOnly,
      Dict(<< <<"type", Atom("string")>>, <<"default", Atom("d")>> >>),
      Dict(<< <<"oneOf", List(<< Dict(<< <<"const", Atom("x")>> >>),
                                 Dict(<< <<"const", Atom("y")>> >>) >>)>>,
              <<"default", Atom("x")>> >>),
      Dict(<< <<"oneOf", List(<<>>)>> >>) }

FieldChoices(name) == {<<>>} \cup {<< <<name, s>> >> : s \in PropSchemas}

PropDicts == {Dict(d \o h) : d \in FieldChoices("data"), h \in FieldChoices("has_more")}

RequiredLists ==
    {List([i \in 1..Len(r) |-> Atom(r[i])]) :
        r \in SeqsBetween({"data", "has_more", "id"}, 0, MaxRequired)}

\* the declarations of ListXResponse: required and properties, each optional
ListSchemas ==
    {Dict(req \o props) :
        req \in {<<>>} \cup {<< <<"required", r>> >> : r \in RequiredLists},
        props \in {<<>>} \cup {<< <<"properties", p>> >> : p \in PropDicts}}

ErrorSchemas ==
    { Dict(<< <<"required", List(<<Atom("status"), Atom("title"), Atom("detail")>>)>>,
              <<"properties", Dict(<< <<"detail", TypeOnly>>,
                                      <<"status", Dict(<< <<"type", Atom("integer")>>,
                                                          <<"default", Atom("500")>> >>)>> >>)>> >>),
      Dict(<< <<"properties", Dict(<< <<"title", TypeOnly>> >>)>> >>) }

\* the component schemas of SpecNormalize: XResponse and ListX are simple
\* lists under names that are not List*Response
NormalizeComponents ==
    {l \o << <<XResponse, SimpleListSchema>>, <<ListX, SimpleListSchema>> >> \o e :
        l \in {<<>>} \cup {<< <<ListXResponse, s>> >> : s \in ListSchemas},
        e \in {<<>>} \cup {<< <<ErrorName, s>> >> : s \in ErrorSchemas}}

Refs == {<<>>, <<ListXResponse>>, <<XResponse>>, <<ListX>>}

\* the input paths of SpecNormalize: GET /v1/a, with or without HEAD /v1/a
NormalizePaths ==
    {<< <<V1A, << <<"get", InputOp(<< <<"a", " ", "b">>, <<"a", "_", "b">> >>, r)>> >> >> >> :
        r \in Refs}
    \cup
    {<< <<<<"v1", <<"a">>>>, << <<"get", InputOp(<< <<"a", " ", "b">>, <<"a", "_", "b">> >>, r)>>,
                                 <<"head", InputOp(<< <<"a", "_", "b">> >>, <<ListXResponse>>)>> >> >> >> :
        r \in Refs}

NormalizeInit ==
    /\ input_paths \in NormalizePaths
    /\ input_components \in NormalizeComponents
    /\ ProcStart
    /\ pc = "scan"

-----------------------------------------------------------------------------
(* patch_apis, step by step *)

FileExists(name) == HasKey(files, name)

\* the hierarchy file is loaded and linearized; "No hierarchy found" and a
\* missing API directory end the run
LoadHierarchy ==
    /\ ppc = "load"
    /\ IF patch_hierarchy = <<>>
       THEN ppc' = "end" /\ UNCHANGED pairs
       ELSE /\ pairs' = extract_parent_child_pairs(patch_hierarchy, <<>>)
            /\ ppc' = IF ~api_dir_exists THEN "end"
                      ELSE IF pairs' = <<>> THEN "client"
                      ELSE "optional"
    /\ pair_i' = 0
    /\ patched_count' = 0
    /\ UNCHANGED <<run, patch_hierarchy, api_dir_exists, files, client_file>>
    /\ UNCHANGED <<treeVars, oneofVars, procVars>>

\* one loop iteration, first half: if parent_file.exists(): patch_optional_import
EnsureOptional ==
    /\ ppc = "optional"
    /\ LET name == to_snake_case(pairs[pair_i + 1][1]) IN
       files' = IF FileExists(name)
                THEN Put(files, name, patch_optional_import(Get(files, name)))
                ELSE files
    /\ ppc' = "patch"
    /\ UNCHANGED <<run, patch_hierarchy, api_dir_exists, client_file, pairs, pair_i,
                   patched_count>>
    /\ UNCHANGED <<treeVars, oneofVars, procVars>>

\* a mutation of the loop: a pair whose parent file is not patched ends the run
PatchParentAborting ==
    /\ ppc = "patch"
    /\ LET name == to_snake_case(pairs[pair_i + 1][1])
           child_tag == pairs[pair_i + 1][2]
           res == IF FileExists(name)
                  THEN patch_api_file(Get(files, name), child_tag)
                  ELSE [ok |-> FALSE, lines |-> <<>>]
       IN  /\ files' = IF FileExists(name) THEN Put(files, name, res.lines) ELSE files
           /\ patched_count' = IF res.ok THEN patched_count + 1 ELSE patched_count
           /\ ppc' = IF ~res.ok THEN "end"
                     ELSE IF pair_i + 1 < Len(pairs) THEN "optional" ELSE "client"
    /\ pair_i' = pair_i + 1
    /\ UNCHANGED <<run, patch_hierarchy, api_dir_exists, client_file, pairs>>
    /\ UNCHANGED <<treeVars, oneofVars, procVars>>

\* one loop iteration, second half: patch_api_file(parent_file, child_tag, ...)
PatchParent ==
    /\ ppc = "patch"
    /\ LET name == to_snake_case(pairs[pair_i + 1][1])
           child_tag == pairs[pair_i + 1][2]
           res == IF FileExists(name)
                  THEN patch_api_file(Get(files, name), child_tag)
                  ELSE [ok |-> FALSE, lines |-> <<>>]
       IN  /\ files' = IF FileExists(name) THEN Put(files, name, res.lines) ELSE files
           /\ patched_count' = IF res.ok THEN patched_count + 1 ELSE patched_count
    /\ pair_i' = pair_i + 1
    /\ ppc' = IF pair_i' < Len(pairs) THEN "optional" ELSE "client"
    /\ UNCHANGED <<run, patch_hierarchy, api_dir_exists, client_file, pairs>>
    /\ UNCHANGED <<treeVars, oneofVars, procVars>>

\* if client_file.exists(): patch_llama_stack_client(client_file, pairs)
PatchClient ==
    /\ ppc = "client"
    /\ client_file' = IF client_file # <<>>
                      THEN <<patch_llama_stack_client(client_file[1], pairs).lines>>
                      ELSE client_file
    /\ ppc' = "end"
    /\ UNCHANGED <<run, patch_hierarchy, api_dir_exists, files, pairs, pair_i, patched_count>>
    /\ UNCHANGED <<treeVars, oneofVars, procVars>>

\* the script is run again on the same hierarchy file and SDK directory
RunAgain ==
    /\ ppc = "end"
    /\ run < MaxRuns
    /\ run' = run + 1
    /\ ppc' = "load"
    /\ pairs' = <<>>
    /\ pair_i' = 0
    /\ patched_count' = 0
    /\ UNCHANGED <<patch_hierarchy, api_dir_exists, files, client_file>>
    /\ UNCHANGED <<treeVars, oneofVars, procVars>>

PatchNext ==
    \/ LoadHierarchy
    \/ EnsureOptional
    \/ PatchParent
    \/ PatchClient
    \/ RunAgain

-----------------------------------------------------------------------------
(* The hierarchy files and SDK directories of SpecPatch *)

TagB == <<"B">>
TagAB == <<"a", "B">>
TagA_B == <<"a", "_", "b">>
TagEmpty == <<>>

\* the tag lists the hierarchy was extracted from, in scanning order
PatchedTagLists ==
    { <<>>,
      << <<TagB>> >>,
      << <<TagB>>, <<TagAB>> >>,
      << <<TagB, TagAB>> >>,
      << <<TagB, TagAB>>, <<TagB, TagA_B>> >>,
      << <<TagB, TagAB, TagB>> >>,
      << <<TagAB, TagB>>, <<TagA_B, TagB>> >>,
      << <<TagEmpty, TagB>> >>,
      << <<TagB, TagEmpty>> >> }

RECURSIVE HierarchyOf(_)
HierarchyOf(lists) ==
    IF lists = <<>> THEN <<>>
    ELSE build_hierarchy_from_tags(lists[Len(lists)], HierarchyOf(SubSeq(lists, 1, Len(lists) - 1)))

\* generated API files: the template, and files that lack an anchor
ApiFileTexts ==
    { <<ImportLine, TypingLine(FALSE), OtherLine, ClassLine, OtherLine, BindingLine(8), OtherLine>>,
      <<OtherLine, ImportLine, OtherLine, ClassLine, BindingLine(8)>>,
      <<TypingLine(TRUE), OtherLine, OtherLine, ClassLine, OtherLine, BindingLine(4)>>,
      <<ImportLine, TypingLine(FALSE), OtherLine, BindingLine(8)>>,
      <<TypingLine(FALSE), OtherLine, ClassLine, OtherLine>>,
      <<ClassLine, BindingLine(8)>>,
      <<BindingLine(4), ClassLine, OtherLine, BindingLine(8), BindingLine(8)>> }

\* the API files of the two parent modules b_api.py and a_b_api.py, each
\* present or not
ApiDirs ==
    {b \o a :
        b \in {<<>>} \cup {<< <<to_snake_case(TagB), t>> >> : t \in ApiFileTexts},
        a \in {<<>>} \cup {<< <<to_snake_case(TagAB), t>> >> : t \in ApiFileTexts}}

\* the aggregate client file: absent, without the marker, with it, with two
\* markers, and with a wiring line already in it
ClientFiles ==
    { <<>>,
      << <<OtherLine, OtherLine>> >>,
      << <<OtherLine, MarkerLine(8), OtherLine>> >>,
      << <<MarkerLine(4), OtherLine, MarkerLine(4)>> >>,
      << <<OtherLine, MarkerLine(8), WireLine(8, <<TagB, TagAB>>)>> >> }

PatchStart ==
    /\ run = 1
    /\ pairs = <<>>
    /\ pair_i = 0
    /\ patched_count = 0

PatchInit ==
    /\ ppc = "load"
    /\ patch_hierarchy \in {HierarchyOf(l) : l \in PatchedTagLists}
    /\ \/ api_dir_exists = TRUE /\ files \in ApiDirs
       \/ api_dir_exists = FALSE /\ files = <<>>
    /\ client_file \in ClientFiles
    /\ PatchStart

\* no patch_apis run
PatchIdle ==
    /\ ppc = "idle"
    /\ patch_hierarchy = <<>>
    /\ api_dir_exists = FALSE
    /\ files = <<>>
    /\ client_file = <<>>
    /\ PatchStart

-----------------------------------------------------------------------------
(* Specifications *)

TreeNext == Insert

InitTree == TreeInit /\ OneOfIdle /\ ProcIdle /\ PatchIdle

SpecTree == InitTree /\ [][TreeNext]_vars

OneOfNext == FixOnce \/ FixTwice

InitOneOf == OneOfInit /\ TreeInit /\ ProcIdle /\ PatchIdle

SpecOneOf == InitOneOf /\ [][OneOfNext]_vars

InitExtract == ExtractInit /\ TreeInit /\ OneOfIdle /\ PatchIdle

SpecExtract == InitExtract /\ [][ProcNext]_vars

InitNormalize == NormalizeInit /\ TreeInit /\ OneOfIdle /\ PatchIdle

SpecNormalize == InitNormalize /\ [][ProcNext]_vars

InitPatch == PatchInit /\ TreeInit /\ OneOfIdle /\ ProcIdle

SpecPatch == InitPatch /\ [][PatchNext]_vars

-----------------------------------------------------------------------------
(* Properties of the hierarchy tree *)

\* the pairs (t1,t2), (t2,t3), ..., (t(n-1),tn) of a tag list
ChainPairs(tags) == [i \in 1..(Len(tags) - 1) |-> <<tags[i], tags[i + 1]>>]

\* every key path of tree g is a key path of tree h
RECURSIVE SubTree(_, _)
SubTree(g, h) ==
    \A i \in 1..Len(g) :
        /\ HasKey(h, g[i][1])
        /\ SubTree(g[i][2], Get(h, g[i][1]))

\* C5 (as claimed): a tag list inserted into an empty tree linearizes to
\* exactly its chain of consecutive pairs, for any string values.
C5_ChainOfAnyStrings ==
    Len(inserted) = 1 => linear = ChainPairs(inserted[1])

\* C6: an insertion only adds keys (every key path present before is
\* present after), and inserting a tag list that was inserted before
\* leaves the tree and the linearized pair list unchanged.
C6_InsertOnlyAdds ==
    [][ /\ SubTree(hierarchy, hierarchy')
        /\ (inserted' # inserted /\ inserted'[Len(inserted')] \in Range(inserted)
              => hierarchy' = hierarchy /\ linear' = linear) ]_vars

\* C6 witness: a list has been inserted a second time into a tree that
\* holds a nested key
C6_Witness ==
    /\ Len(inserted) >= 2
    /\ inserted[Len(inserted)] \in Range(SubSeq(inserted, 1, Len(inserted) - 1))
    /\ Len(inserted[Len(inserted)]) >= 2
    /\ Len(linear) >= 1

\* C7 (as claimed): for a oneOf list of any length the conversion ends with
\* a result, a second application changes nothing, an all-const oneOf
\* becomes {type, enum} with the other sibling keys kept, and a oneOf with
\* a member lacking const is left as it is.
C7_ConvertsOneOfOfAnyLength ==
    /\ opc \in {"once", "twice"} => once # Raised
    /\ opc = "twice" => twice = once
    /\ (opc = "once" /\ IsDict(schema) /\ In("oneOf", schema)) =>
          LET one_of == At(schema, "oneOf")
              got == convert_oneof_const_to_enum(schema)
          IN  IF AllConst(one_of)
              THEN /\ got # Raised
                   /\ ~In("oneOf", got)
                   /\ At(got, "enum") = List([i \in 1..Len(one_of[2]) |-> At(one_of[2][i], "const")])
                   /\ EntriesWithout(got[2], {"type", "enum"})
                        = EntriesWithout(schema[2], {"oneOf", "type", "enum"})
              ELSE got = schema

-----------------------------------------------------------------------------
(* Properties of process_openapi *)

\* the (path, method) pairs of a paths dict
OpKeys(ps) ==
    UNION {{<<ps[i][1], ps[i][2][j][1]>> : j \in 1..Len(ps[i][2])} : i \in 1..Len(ps)}

HasOp(ps, path, method) == HasKey(ps, path) /\ HasKey(Get(ps, path), method)

\* an operation the scanning loop collapses: one of the eight methods, with
\* a non-empty tag list
Eligible(ps, k) == k[2] \in Range(ScanMethods) /\ OpAt(ps, k[1], k[2]).tags # <<>>

\* C2 (as claimed): after process_openapi every tag in tags_without_endpoints
\* has exactly one placeholder operation, GET /dummy/<slug(tag)>, tagged
\* [tag], also when the slugs of two structural tags coincide.
C2_OnePlaceholderPerTag ==
    pc = "done" =>
        \A tag \in tags_without_endpoints :
            /\ HasOp(paths, DummyPath(tag), "get")
            /\ OpAt(paths, DummyPath(tag), "get").dummy
            /\ OpAt(paths, DummyPath(tag), "get").tags = <<tag>>
            /\ Cardinality({k \in OpKeys(paths) :
                    OpAt(paths, k[1], k[2]).dummy /\ OpAt(paths, k[1], k[2]).tags = <<tag>>}) = 1

\* C3 (as claimed): after extraction the two sets partition all_tags, and a
\* tag is in tags_with_endpoints exactly when it is the last element of an
\* eligible operation's tag list.
C3_PartitionByLeaf ==
    pc \notin {"scan", "idle"} =>
        /\ tags_with_endpoints \cup tags_without_endpoints = all_tags
        /\ tags_with_endpoints \cap tags_without_endpoints = {}
        /\ \A tag \in all_tags :
              tag \in tags_with_endpoints <=>
                 \E k \in OpKeys(input_paths) :
                    /\ Eligible(input_paths, k)
                    /\ LET tags == OpAt(input_paths, k[1], k[2]).tags IN tags[Len(tags)] = tag

\* C4 (as claimed): after process_openapi every operation of the output has
\* at most one tag, and an original operation with a non-empty tag list is
\* left with exactly the last element of that list.
C4_CollapsedToLeaf ==
    pc = "done" =>
        /\ \A k \in OpKeys(paths) : Len(OpAt(paths, k[1], k[2]).tags) <= 1
        /\ \A k \in OpKeys(input_paths) :
              (/\ Eligible(input_paths, k)
               /\ HasOp(paths, k[1], k[2])
               /\ ~OpAt(paths, k[1], k[2]).dummy)
              => LET tags == OpAt(input_paths, k[1], k[2]).tags
                 IN  OpAt(paths, k[1], k[2]).tags = <<tags[Len(tags)]>>

\* the condition of C9 on an operation: its 200 JSON response schema is a
\* $ref to a component named List...Response whose properties hold data
\* and no pagination field
C9_SimpleList(op) ==
    /\ op.ref # <<>>
    /\ SubSeq(op.ref[1], 1, 4) = <<"L", "i", "s", "t">>
    /\ Len(op.ref[1]) >= 8
    /\ SubSeq(op.ref[1], Len(op.ref[1]) - 7, Len(op.ref[1])) = <<"R", "e", "s", "p", "o", "n", "s", "e">>
    /\ \E i \in 1..Len(components) :
          /\ components[i][1] = op.ref[1]
          /\ \E j \in 1..Len(components[i][2][2]) :
                /\ components[i][2][2][j][1] = "properties"
                /\ LET names == {components[i][2][2][j][2][2][n][1] :
                                    n \in 1..Len(components[i][2][2][j][2][2])}
                   IN  /\ "data" \in names
                       /\ names \cap {"has_more", "url", "first_id", "last_id",
                                      "next_page_token", "total"} = {}

\* C9 (as claimed): an operation under any HTTP method carries
\* x-unwrap-list-response exactly when its response is a simple list.
C9_UnwrapUnderAnyMethod ==
    pc = "done" =>
        \A k \in OpKeys(paths) :
            OpAt(paths, k[1], k[2]).unwrap <=> C9_SimpleList(OpAt(paths, k[1], k[2]))

\* C9 (amended): an operation carries x-unwrap-list-response exactly when
\* its method is get, post, put, delete or patch and its response is a
\* simple list; an operation under options, head or trace is never marked.
C9_UnwrapUnderFiveMethods ==
    pc = "done" =>
        \A k \in OpKeys(paths) :
            OpAt(paths, k[1], k[2]).unwrap <=>
                (/\ k[2] \in {"get", "post", "put", "delete", "patch"}
                 /\ C9_SimpleList(OpAt(paths, k[1], k[2])))

\* C9 witness: a run that marked a GET with a simple list response and left
\* a HEAD with the same response unmarked
C9_Witness ==
    /\ pc = "done"
    /\ \E k \in OpKeys(paths) :
          k[2] = "get" /\ OpAt(paths, k[1], k[2]).unwrap /\ C9_SimpleList(OpAt(paths, k[1], k[2]))
    /\ \E k \in OpKeys(paths) :
          k[2] = "head" /\ ~OpAt(paths, k[1], k[2]).unwrap /\ C9_SimpleList(OpAt(paths, k[1], k[2]))

\* whether property schema of field f in YAML dict props declares a default
DeclaresDefault(props, f) ==
    \E j \in 1..Len(props[2]) :
        /\ props[2][j][1] = f
        /\ props[2][j][2][1] = "dict"
        /\ \E n \in 1..Len(props[2][j][2][2]) : props[2][j][2][2][n][1] = "default"

\* C10: the defaults pass keeps in required exactly the names that were in
\* it and whose property schema declares no default, in their order, and
\* leaves properties (defaults included) as they were.
C10_DefaultsLeaveRequired ==
    [][ pc = "defaults" =>
          /\ Len(components') = Len(components)
          /\ \A i \in 1..Len(components) :
                LET before == components[i][2]
                    after == components'[i][2]
                IN  (IsDict(before) /\ In("required", before) /\ In("properties", before)) =>
                      /\ components'[i][1] = components[i][1]
                      /\ At(after, "properties") = At(before, "properties")
                      /\ At(after, "required") =
                            List(SelectSeq(At(before, "required")[2],
                                   LAMBDA f : ~DeclaresDefault(At(before, "properties"), f[2])))
      ]_vars

\* C10 witness: the pass has run on a ListXResponse whose required list
\* lost a defaulted field and kept another one
C10_Witness ==
    /\ pc = "error"
    /\ HasKey(components, ListXResponse)
    /\ LET before == Get(input_components, ListXResponse)
           after == Get(components, ListXResponse)
       IN  /\ In("required", before) /\ In("properties", before)
           /\ Len(At(after, "required")[2]) = 1
           /\ Len(At(before, "required")[2]) = 2
           /\ \E i \in 1..2 : DeclaresDefault(At(before, "properties"), At(before, "required")[2][i][2])

-----------------------------------------------------------------------------
(* Properties of patch_apis *)

\* C1 (as claimed): for a non-empty hierarchy, also one whose pair list is
\* empty, a second run of patch_apis changes no API file and not the
\* aggregate client file.
C1_SecondRunIsNoOp ==
    [][ (run >= 2 /\ patch_hierarchy # <<>>)
          => (files' = files /\ client_file' = client_file) ]_vars

\* the client file holds the marker and no line with the first pair's
\* assignment
C8_Unpatched ==
    /\ client_file # <<>>
    /\ \E i \in 1..Len(client_file[1]) : client_file[1][i].kind = "marker"
    /\ pairs # <<>> =>
          \A i \in 1..Len(client_file[1]) :
              ~(/\ client_file[1][i].kind = "wire"
                /\ client_file[1][i].a = to_snake_case(pairs[1][1])
                /\ client_file[1][i].b = to_snake_case(pairs[1][2]))

\* the first marker line of the client file
C8_Marker ==
    CHOOSE m \in 1..Len(client_file[1]) :
        /\ client_file[1][m].kind = "marker"
        /\ \A j \in 1..(m - 1) : client_file[1][j].kind # "marker"

\* self.<snake(parent)>.<snake(child)> = self.<snake(child)> for each pair,
\* in order, at the marker's indentation
C8_Assignments ==
    [i \in 1..Len(pairs) |->
        [kind |-> "wire", indent |-> client_file[1][C8_Marker].indent,
         a |-> to_snake_case(pairs[i][1]), b |-> to_snake_case(pairs[i][2]), opt |-> FALSE]]

\* C8 (as claimed): patching an unpatched client file that holds the marker
\* puts the assignments directly after the marker line, the first pair's
\* first, and changes no other line.
C8_AssignmentsFollowMarker ==
    [][ (ppc = "client" /\ C8_Unpatched) =>
          client_file' = << SubSeq(client_file[1], 1, C8_Marker)
                            \o C8_Assignments
                            \o SubSeq(client_file[1], C8_Marker + 1, Len(client_file[1])) >>
      ]_vars

\* C8 (amended): patching an unpatched client file that holds the marker
\* puts, directly after the first marker line, the comment line
\* "# Wire up parent-child API relationships" and then the assignments in
\* pair order, all at the marker's indentation, and changes no other line.
C8_CommentThenAssignments ==
    [][ (ppc = "client" /\ C8_Unpatched) =>
          client_file' = << SubSeq(client_file[1], 1, C8_Marker)
                            \o << [kind |-> "wire_comment",
                                   indent |-> client_file[1][C8_Marker].indent,
                                   a |-> <<>>, b |-> <<>>, opt |-> FALSE] >>
                            \o C8_Assignments
                            \o SubSeq(client_file[1], C8_Marker + 1, Len(client_file[1])) >>
      ]_vars

\* C8 witness: the first run has wired two pairs after a marker that other
\* lines surround
C8_Witness ==
    /\ ppc = "end"
    /\ run = 1
    /\ Len(pairs) = 2
    /\ client_file # <<>>
    /\ Len(client_file[1]) = 6
    /\ client_file[1][2].kind = "marker"
    /\ client_file[1][3].kind = "wire_comment"
    /\ client_file[1][4].kind = "wire" /\ client_file[1][4].a = to_snake_case(pairs[1][1])
    /\ client_file[1][5].kind = "wire" /\ client_file[1][5].a = to_snake_case(pairs[2][1])
    /\ client_file[1][4] # client_file[1][5]

\* the parent file of the pair being processed
C11_Parent == to_snake_case(pairs[pair_i + 1][1])

\* the pair being processed cannot be patched: its parent file is missing,
\* holds no class declaration, or holds no transport binding after it
C11_Fails ==
    \/ ~FileExists(C11_Parent)
    \/ LET lines == Get(files, C11_Parent) IN
       \/ \A i \in 1..Len(lines) : lines[i].kind # "class"
       \/ \E c \in 1..Len(lines) :
            /\ lines[c].kind = "class"
            /\ \A j \in 1..(c - 1) : lines[j].kind # "class"
            /\ \A j \in (c + 1)..Len(lines) : lines[j].kind # "binding"

\* C11: a pair whose parent file cannot be patched does not end the loop of
\* patch_apis: the next pair is processed when there is one, the aggregate
\* client is patched after the last pair, and the client step is reached
\* only when every pair has been processed.
C11_FailureDoesNotAbort ==
    /\ [][ (ppc = "patch" /\ C11_Fails) =>
             /\ pair_i' = pair_i + 1
             /\ patched_count' = patched_count
             /\ pair_i' < Len(pairs) => ppc' = "optional"
             /\ pair_i' = Len(pairs) => ppc' = "client" ]_vars
    /\ [][ ppc = "client" =>
             /\ ppc' = "end"
             /\ client_file # <<>> =>
                  client_file' = <<patch_llama_stack_client(client_file[1], pairs).lines>> ]_vars
    /\ [](ppc = "client" => pair_i = Len(pairs))
    /\ [](ppc = "optional" => pair_i < Len(pairs))

\* C11 witness: the first pair's parent file is missing, the second pair's
\* parent file was patched and the client was wired afterwards
C11_Witness ==
    /\ ppc = "end"
    /\ run = 1
    /\ Len(pairs) = 2
    /\ pair_i = 2
    /\ ~FileExists(to_snake_case(pairs[1][1]))
    /\ FileExists(to_snake_case(pairs[2][1]))
    /\ patched_count = 1
    /\ client_file # <<>>
    /\ \E i \in 1..Len(client_file[1]) : client_file[1][i].kind = "wire_comment"

-----------------------------------------------------------------------------
(* Properties of the linearizer *)

\* the number of nodes of a tree
RECURSIVE NodeCount(_)
NodeCount(h) ==
    IF h = <<>> THEN 0 ELSE 1 + NodeCount(h[1][2]) + NodeCount(Tail(h))

\* depth-first pre-order with siblings in insertion order: the pair of a
\* node under a parent, then the pairs below the node, then the pairs of
\* its later siblings; parent is <<>> at the top level and <<p>> below p
RECURSIVE PreOrderPairs(_, _)
PreOrderPairs(h, parent) ==
    IF h = <<>> THEN <<>>
    ELSE (IF parent # <<>> THEN << <<parent[1], h[1][1]>> >> ELSE <<>>)
         \o PreOrderPairs(h[1][2], <<h[1][1]>>)
         \o PreOrderPairs(Tail(h), parent)

\* C12 (as claimed): for every tree built by insertions of tag lists the
\* linearizer emits one pair for each node that is not at the top level, in
\* depth-first pre-order with siblings in insertion order.
C12_PreOrderOfEveryNode ==
    /\ Len(linear) = NodeCount(hierarchy) - Len(hierarchy)
    /\ linear = PreOrderPairs(hierarchy, <<>>)

-----------------------------------------------------------------------------
(* Properties of patch_api_file within patch_apis *)

\* the parent file and the child of the pair being processed
C13_Parent == to_snake_case(pairs[pair_i + 1][1])
C13_Child == pairs[pair_i + 1][2]

\* the 1-based position of the first class declaration of a file
C13_ClassPos(lines) ==
    CHOOSE c \in 1..Len(lines) :
        lines[c].kind = "class" /\ \A j \in 1..(c - 1) : lines[j].kind # "class"

\* the 1-based position of the first transport binding after the class
C13_BindingPos(lines) ==
    CHOOSE b \in (C13_ClassPos(lines) + 1)..Len(lines) :
        /\ lines[b].kind = "binding"
        /\ \A j \in (C13_ClassPos(lines) + 1)..(b - 1) : lines[j].kind # "binding"

C14_LacksAnchor ==
    /\ FileExists(C13_Parent)
    /\ LET lines == Get(files, C13_Parent) IN
       \/ \A i \in 1..Len(lines) : lines[i].kind # "class"
       \/ \A j \in (C13_ClassPos(lines) + 1)..Len(lines) : lines[j].kind # "binding"

\* C14 (as claimed): while a pair is processed whose parent file exists and
\* lacks the class declaration or the transport binding, no step of
\* patch_apis changes the file: its contents after the pair are those
\* before it.
C14_FileLeftAsItWas ==
    [][ (ppc \in {"optional", "patch"} /\ C14_LacksAnchor) => files' = files ]_vars

-----------------------------------------------------------------------------
(* Properties of the placeholder synthesis *)

\* C15 (as claimed): after process_openapi every operation of the input
\* spec is still in the output spec under its path and method, also under
\* a path that begins with /dummy/, and every tag in tags_with_endpoints
\* still owns an operation.
C15_SynthesisOnlyAdds ==
    pc = "done" =>
        /\ \A k \in OpKeys(input_paths) :
              /\ HasOp(paths, k[1], k[2])
              /\ ~OpAt(paths, k[1], k[2]).dummy
        /\ \A tag \in tags_with_endpoints :
              \E k \in OpKeys(paths) : OpAt(paths, k[1], k[2]).tags = <<tag>>

=============================================================================
